---- MODULE Spec2Model ----
(***************************************************************************)
(* gitlabctl: the `get` pipeline of src/main.rs.                           *)
(*                                                                         *)
(* main lists the projects, fans out one environment-list task per         *)
(* project, joins them, fans out one environment-detail task per           *)
(* (project, environment), joins them, filters the rows that have no       *)
(* commit, groups the rest by project name and prints a coloured table.    *)
(*                                                                         *)
(* Strings are TLA+ strings (Len is the byte length of an ASCII string),   *)
(* except namespaces, which are sequences of one-character strings so      *)
(* that to_uppercase can be computed character by character.              *)
(* Option<T> is a sequence of length 0 (None) or 1 (Some).                 *)
(* Result<T, E> is [ok |-> TRUE, val |-> v] or [ok |-> FALSE].             *)
(* A call that may panic yields [panic |-> TRUE] or                        *)
(* [panic |-> FALSE, val |-> v].                                           *)
(* The elapsed times of the progress lines are not modelled.               *)
(***************************************************************************)
EXTENDS Integers, Sequences, FiniteSets, TLC

VARIABLES
    pc,            \* position of main: start, projects, envs, details, done;
                   \* or the name of the function under test
    outcome,       \* running, ok (exit 0), err (main returned Err), panic
    stdout,        \* the lines printed so far
    subcommand,    \* "get" or "none" (command line)
    namespace,     \* value of --namespace, "" when absent (command line)
    projResp,      \* Option: the platform's answer to the project-list call
    project_names, \* main.rs:202, the retained (name, id) pairs
    envTask,       \* per environment-list task: spawned, calling, done
    envResp,       \* per environment-list task: Option of the platform's answer
    envOut,        \* join_all's output slots of the environment-list stage
    all_envs,      \* main.rs:203
    detArgs,       \* per detail task: the (name, id, env) it was launched with
    detTask,       \* per detail task: spawned, calling, done
    detResp,       \* per detail task: Option of the platform's answer
    detOut,        \* join_all's output slots of the detail stage
    results,       \* main.rs:204, Option of the row vector
    arg,           \* argument of the function under test (function specifications)
    ret            \* Option of its return value (function specifications)

vars == <<pc, outcome, stdout, subcommand, namespace, projResp, project_names,
          envTask, envResp, envOut, all_envs, detArgs, detTask, detResp, detOut,
          results, arg, ret>>

-----------------------------------------------------------------------------
(* Bounds of the model *)

MaxProjects == 2

MaxEnvTotal == 2

MaxRows == 4

-----------------------------------------------------------------------------
(* Generic helpers *)

None == <<>>

Some(v) == <<v>>

Ok(v) == [ok |-> TRUE, val |-> v]

Err == [ok |-> FALSE]

Panic == [panic |-> TRUE]

Return(v) == [panic |-> FALSE, val |-> v]

Max2(a, b) == IF a >= b THEN a ELSE b

RECURSIVE MaxOf(_)
\* Iterator::max over a non-empty sequence of lengths
MaxOf(s) == IF Len(s) = 1 THEN s[1] ELSE Max2(s[1], MaxOf(Tail(s)))

RECURSIVE Flatten(_)
Flatten(ss) == IF ss = <<>> THEN <<>> ELSE Head(ss) \o Flatten(Tail(ss))

RECURSIVE SumLen(_)
SumLen(ss) == IF ss = <<>> THEN 0 ELSE Len(Head(ss)) + SumLen(Tail(ss))

RECURSIVE SeqsUpTo(_, _)
\* all sequences over S of length at most n
SeqsUpTo(S, n) ==
    IF n = 0 THEN {<<>>}
    ELSE LET shorter == SeqsUpTo(S, n - 1)
         IN  shorter \cup {Append(s, x) : s \in shorter, x \in S}

-----------------------------------------------------------------------------
(* str::to_uppercase on ASCII text *)

LowerCase == <<"a","b","c","d","e","f","g","h","i","j","k","l","m",
               "n","o","p","q","r","s","t","u","v","w","x","y","z">>

UpperCase == <<"A","B","C","D","E","F","G","H","I","J","K","L","M",
               "N","O","P","Q","R","S","T","U","V","W","X","Y","Z">>

ToUpperChar(c) ==
    IF \E i \in 1..Len(LowerCase) : LowerCase[i] = c
    THEN UpperCase[CHOOSE i \in 1..Len(LowerCase) : LowerCase[i] = c]
    ELSE c

to_uppercase(s) == [i \in 1..Len(s) |-> ToUpperChar(s[i])]

-----------------------------------------------------------------------------
(* get_projects_for_namespace, main.rs:26-50 *)

NamespaceMatchesSensitive(pns, ns) == ns = <<>> \/ pns = ns

NamespaceMatchesPrefix(pns, ns) ==
    \/ ns = <<>>
    \/ /\ Len(pns) >= Len(ns)
       /\ to_uppercase(SubSeq(pns, 1, Len(ns))) = to_uppercase(ns)

\* main.rs:37, the filter closure
NamespaceMatches(pns, ns) ==
    ns = <<>> \/ to_uppercase(pns) = to_uppercase(ns)

ProjectsExpect(resp) == IF resp.ok THEN Return(resp.val) ELSE Panic

\* main.rs:34-35, glh.projects(..).unwrap_or_default()
ProjectsOrDefault(resp) == Return(IF resp.ok THEN resp.val ELSE <<>>)

RetainAllProjects(projects, ns) ==
    [i \in 1..Len(projects) |-> [name |-> projects[i].name, id |-> projects[i].id]]

\* main.rs:36-39, filter and map over the listed projects
RetainProjects(projects, ns) ==
    LET kept == SelectSeq(projects, LAMBDA p : NamespaceMatches(p.namespace, ns))
    IN  [i \in 1..Len(kept) |-> [name |-> kept[i].name, id |-> kept[i].id]]

\* main.rs:33-42, the blocking closure and the .expect on its join handle
get_projects_for_namespace(resp, ns) ==
    LET listed == ProjectsOrDefault(resp)
    IN  IF listed.panic THEN Panic ELSE Return(RetainProjects(listed.val, ns))

-----------------------------------------------------------------------------
(* get_environments_of_project, main.rs:52-68 *)

EnvironmentsExpect(resp) == IF resp.ok THEN Return(resp.val) ELSE Panic

\* main.rs:59-61, gitlab.environments(..).unwrap_or_default()
EnvironmentsOrDefault(resp) == Return(IF resp.ok THEN resp.val ELSE <<>>)

get_environments_of_project(project, resp) ==
    LET listed == EnvironmentsOrDefault(resp)
    IN  IF listed.panic THEN Panic
        ELSE Return([j \in 1..Len(listed.val) |->
                        [name |-> project.name, id |-> project.id,
                         env |-> listed.val[j]]])

-----------------------------------------------------------------------------
(* build_environment_row, main.rs:97-135 *)

\* main.rs:123, Utc::now() in hours; the wall clock is an input held fixed
UtcNow == 12

\* the timestamps that are valid RFC 3339, with their instant in hours
Rfc3339Hour == ("2021-03-01T10:00:00Z" :> 10) @@ ("2021-03-01T12:00:00Z" :> 12)

\* DateTime::parse_from_rfc3339
parse_from_rfc3339(s) ==
    IF s \in DOMAIN Rfc3339Hour THEN Ok(Rfc3339Hour[s]) ELSE Err

\* HumanTime::from(duration).to_string()
HumanTime(d) ==
    IF d = 0 THEN "now"
    ELSE IF d < 0 THEN ToString(0 - d) \o " hours ago"
    ELSE "in " \o ToString(d) \o " hours"

FetchOrDefault(resp, env) ==
    Return(IF resp.ok THEN resp.val
           ELSE [id |-> env.id, name |-> env.name, last_deployment |-> None])

\* main.rs:103-109, gitlab.environment(..).expect(..) in a blocking task
FetchEnvironment(resp, env) == IF resp.ok THEN Return(resp.val) ELSE Panic

\* main.rs:112-118
DeploymentLabel(last_deployment) ==
    IF last_deployment = None THEN ""
    ELSE ToString(last_deployment[1].iid) \o " by " \o last_deployment[1].username

CommitOrUnknown(last_deployment) ==
    IF last_deployment = None THEN "unknown"
    ELSE IF last_deployment[1].short_id = None THEN ""
    ELSE last_deployment[1].short_id[1]

\* main.rs:119-122
CommitOf(last_deployment) ==
    IF last_deployment = None THEN ""
    ELSE IF last_deployment[1].short_id = None THEN ""
    ELSE last_deployment[1].short_id[1]

\* main.rs:124-127; the unwrap of the parse result panics on Err
UpdatedLabel(last_deployment) ==
    IF last_deployment = None THEN Return("")
    ELSE LET parsed == parse_from_rfc3339(last_deployment[1].created_at)
         IN  IF parsed.ok THEN Return(HumanTime(parsed.val - UtcNow))
             ELSE Panic

build_environment_row(project_name, env, resp) ==
    LET fetched == FetchEnvironment(resp, env)
    IN  IF fetched.panic THEN Panic
        ELSE LET detail  == fetched.val
                 updated == UpdatedLabel(detail.last_deployment)
             IN  IF updated.panic THEN Panic
                 ELSE Return(Ok([project_name     |-> project_name,
                                 environment_name |-> detail.name,
                                 deployment_by    |-> DeploymentLabel(detail.last_deployment),
                                 commit_sha       |-> CommitOf(detail.last_deployment),
                                 updated          |-> updated.val]))

-----------------------------------------------------------------------------
(* all_the_same, main.rs:137-141 *)

DedupFirstLast(s) == IF Len(s) <= 1 THEN s
                     ELSE IF s[1] = s[Len(s)] THEN <<s[1]>> ELSE s

RECURSIVE Dedup(_)
\* Vec::dedup: removes consecutive repeated elements
Dedup(s) ==
    IF Len(s) <= 1 THEN s
    ELSE LET rest == Dedup(Tail(s))
         IN  IF Head(s) = Head(rest) THEN rest ELSE <<Head(s)>> \o rest

AllTheSamePairwise(rows) ==
    \E i \in 1..(Len(rows) - 1) : rows[i].commit_sha = rows[i + 1].commit_sha

all_the_same(rows) ==
    LET commits == [i \in 1..Len(rows) |-> rows[i].commit_sha]
    IN  Len(Dedup(commits)) = 1

-----------------------------------------------------------------------------
(* join_all and the collect of get_environment_details *)

JoinAnyReady(tasks) == \E i \in 1..Len(tasks) : tasks[i] = "done"

\* join_all is ready when every one of its futures is
JoinReady(tasks) == \A i \in 1..Len(tasks) : tasks[i] = "done"

CompletionSlot(i, out) == Cardinality({j \in 1..Len(out) : out[j] # None}) + 1

\* join_all keeps the output of its i-th future in its i-th slot
JoinAllSlot(i, out) == i

\* main.rs:163-164, collect into Result<Vec<_>, String>: the first Err wins
CollectResults(outs) ==
    IF \E i \in 1..Len(outs) : ~outs[i].ok
    THEN Err
    ELSE Ok([i \in 1..Len(outs) |-> outs[i].val])

-----------------------------------------------------------------------------
(* The tail of main, main.rs:206-287 *)

TextLine(s) == [kind |-> "text", cells |-> <<s>>, widths |-> <<>>, color |-> ""]

KeepAll(rows) == rows

RECURSIVE DropFirstEmpty(_)
DropFirstEmpty(rows) ==
    IF rows = <<>> THEN <<>>
    ELSE IF Head(rows).commit_sha = "" THEN Tail(rows)
    ELSE <<Head(rows)>> \o DropFirstEmpty(Tail(rows))

\* main.rs:206-209, the rows that have a commit
FilterDeployed(rows) == SelectSeq(rows, LAMBDA r : r.commit_sha # "")

ColumnWidthsNoFloor(rows) ==
    LET col(f(_)) == MaxOf([i \in 1..Len(rows) |-> Len(f(rows[i]))])
    IN  <<col(LAMBDA r : r.project_name),
          col(LAMBDA r : r.environment_name),
          col(LAMBDA r : r.deployment_by),
          col(LAMBDA r : r.commit_sha),
          col(LAMBDA r : r.updated)>>

\* main.rs:217-246, longest_project .. longest_updated of a non-empty row vector
ColumnWidths(rows) ==
    LET col(f(_)) == MaxOf([i \in 1..Len(rows) |-> Len(f(rows[i]))])
    IN  <<Max2(col(LAMBDA r : r.project_name), 7),
          Max2(col(LAMBDA r : r.environment_name), 11),
          Max2(col(LAMBDA r : r.deployment_by), 10),
          Max2(col(LAMBDA r : r.commit_sha), 6),
          Max2(col(LAMBDA r : r.updated), 7)>>

\* main.rs:247-259
HeaderLine(widths) ==
    [kind |-> "header",
     cells |-> <<"PROJECT", "ENVIRONMENT", "DEPLOYMENT", "COMMIT", "UPDATED">>,
     widths |-> widths, color |-> ""]

\* main.rs:269-281
RowLine(r, color, widths) ==
    [kind |-> "row",
     cells |-> <<r.project_name, r.environment_name, r.deployment_by,
                 r.commit_sha, r.updated>>,
     widths |-> widths, color |-> color]

GroupByKey(rows) ==
    LET heads == SelectSeq([i \in 1..Len(rows) |-> i],
                           LAMBDA i : \A j \in 1..(i - 1) :
                                         rows[j].project_name # rows[i].project_name)
    IN  [g \in 1..Len(heads) |->
            SelectSeq(rows, LAMBDA r : r.project_name = rows[heads[g]].project_name)]

RECURSIVE GroupBy(_)
\* main.rs:260-265, itertools group_by on project_name: maximal runs of
\* consecutive rows with equal keys
GroupBy(rows) ==
    IF rows = <<>> THEN <<>>
    ELSE LET rest == GroupBy(Tail(rows))
         IN  IF rest # <<>> /\ Head(rest)[1].project_name = Head(rows).project_name
             THEN <<(<<Head(rows)>> \o Head(rest))>> \o Tail(rest)
             ELSE <<(<<Head(rows)>>)>> \o rest

GroupLinesSwapped(group, widths) ==
    LET color == IF all_the_same(group) THEN "red" ELSE "green"
    IN  [i \in 1..Len(group) |-> RowLine(group[i], color, widths)]

\* main.rs:266-283, the lines of one group
GroupLines(group, widths) ==
    LET color == IF all_the_same(group) THEN "green" ELSE "red"
    IN  [i \in 1..Len(group) |-> RowLine(group[i], color, widths)]

RenderResultsNoReturn(rows) ==
    LET kept == FilterDeployed(rows)
    IN  IF kept = <<>>
        THEN <<TextLine("There is nothing to show"), HeaderLine(<<7, 11, 10, 6, 7>>)>>
        ELSE LET widths == ColumnWidths(kept)
                 groups == GroupBy(kept)
             IN  <<HeaderLine(widths)>>
                 \o Flatten([g \in 1..Len(groups) |-> GroupLines(groups[g], widths)])

\* main.rs:206-283, what main prints for the row vector it got
RenderResults(rows) ==
    LET kept == FilterDeployed(rows)
    IN  IF kept = <<>> THEN <<TextLine("There is nothing to show")>>
        ELSE LET widths == ColumnWidths(kept)
                 groups == GroupBy(kept)
             IN  <<HeaderLine(widths)>>
                 \o Flatten([g \in 1..Len(groups) |-> GroupLines(groups[g], widths)])

-----------------------------------------------------------------------------
(* What the platform and the command line may supply *)

FilterSet == {<<>>, <<"p", "a", "y">>}

\* the (name, namespace) pairs of the platform's projects: two names in one
\* namespace, and one name in two namespaces
ProjectKinds ==
    {<<"api", <<"P", "a", "y">> >>, <<"billing-service", <<"P", "a", "y">> >>,
     <<"api", <<"o", "p", "s">> >>}

ProjectListings ==
    {[i \in 1..Len(s) |-> [id |-> i, name |-> s[i][1], namespace |-> s[i][2]]] :
        s \in SeqsUpTo(ProjectKinds, MaxProjects)}

ProjectListResponses == {Err} \cup {Ok(ps) : ps \in ProjectListings}

EnvName(j) == IF j = 1 THEN "staging"
              ELSE IF j = 2 THEN "production-eu"
              ELSE "env-" \o ToString(j)

EnvListResponses(pid, budget) ==
    {Err} \cup {Ok([j \in 1..m |-> [id |-> <<pid, j>>, name |-> EnvName(j)]]) :
                   m \in 0..budget}

Deployments(env) ==
    LET odd  == env.id[2] % 2 = 1
        good == IF odd THEN "2021-03-01T10:00:00Z" ELSE "2021-03-01T12:00:00Z"
        dep(short, at) ==
            [iid |-> IF odd THEN 7 ELSE 12,
             username |-> IF odd THEN "bob" ELSE "alice-admin",
             short_id |-> short, created_at |-> at]
    IN  {None, Some(dep(None, good)), Some(dep(Some("a1b2c3d"), good)),
         Some(dep(Some("f00"), good)), Some(dep(Some("a1b2c3d"), "yesterday"))}

DetailResponses(env) ==
    {Err} \cup {Ok([id |-> env.id, name |-> env.name, last_deployment |-> d]) :
                   d \in Deployments(env)}

-----------------------------------------------------------------------------
(* The pipeline *)

NoArg == <<>>

Init ==
    /\ pc = "start"
    /\ outcome = "running"
    /\ stdout = <<>>
    /\ subcommand \in {"get", "none"}
    /\ namespace \in (IF subcommand = "get" THEN FilterSet ELSE {<<>>})
    /\ projResp = None
    /\ project_names = <<>>
    /\ envTask = <<>> /\ envResp = <<>> /\ envOut = <<>>
    /\ all_envs = <<>>
    /\ detArgs = <<>> /\ detTask = <<>> /\ detResp = <<>> /\ detOut = <<>>
    /\ results = None
    /\ arg = NoArg /\ ret = None

\* the slots filled so far, in slot order
TakeOutputs(out) ==
    LET filled == SelectSeq(out, LAMBDA o : o # None)
    IN  [i \in 1..Len(filled) |-> filled[i][1]]

Fresh(n, v) == [i \in 1..n |-> v]

\* a panic unwinds main: the process ends with a failure status
Abort ==
    /\ pc' = "done"
    /\ outcome' = "panic"

\* main.rs:284-287, no `get` subcommand
MainNoSubcommand ==
    /\ pc = "start" /\ subcommand # "get"
    /\ stdout' = Append(stdout, TextLine("Why don't you try the get command?"))
    /\ pc' = "done" /\ outcome' = "ok"
    /\ UNCHANGED <<subcommand, namespace, projResp, project_names, envTask,
                   envResp, envOut, all_envs, detArgs, detTask, detResp, detOut,
                   results, arg, ret>>

\* main.rs:191-202, config, connection, and the project-list call is issued
MainConnect ==
    /\ pc = "start" /\ subcommand = "get"
    /\ \E config \in {"ok", "unreadable"}, connect \in {"ok", "err"} :
          IF config # "ok"
          THEN Abort /\ UNCHANGED stdout
          ELSE /\ stdout' = Append(stdout, TextLine("about to start"))
               /\ IF connect = "ok"
                  THEN pc' = "projects" /\ UNCHANGED outcome
                  ELSE pc' = "done" /\ outcome' = "err"
    /\ UNCHANGED <<subcommand, namespace, projResp, project_names, envTask,
                   envResp, envOut, all_envs, detArgs, detTask, detResp, detOut,
                   results, arg, ret>>

\* main.rs:202 and 70-84: the project list arrives, one environment-list
\* task is spawned per retained project
ProjectsReturn ==
    /\ pc = "projects" /\ outcome = "running"
    /\ \E resp \in ProjectListResponses :
          LET got == get_projects_for_namespace(resp, namespace)
          IN  /\ projResp' = Some(resp)
              /\ IF got.panic
                 THEN /\ Abort
                      /\ UNCHANGED <<stdout, project_names, envTask, envResp, envOut>>
                 ELSE /\ stdout' = Append(stdout,
                            TextLine("Obtained " \o ToString(Len(got.val)) \o " projects"))
                      /\ project_names' = got.val
                      /\ envTask' = Fresh(Len(got.val), "spawned")
                      /\ envResp' = Fresh(Len(got.val), None)
                      /\ envOut' = Fresh(Len(got.val), None)
                      /\ pc' = "envs"
                      /\ UNCHANGED outcome
    /\ UNCHANGED <<subcommand, namespace, all_envs, detArgs, detTask, detResp,
                   detOut, results, arg, ret>>

\* main.rs:58-60, task i issues its environment-list call
EnvCall(i) ==
    /\ outcome = "running"
    /\ envTask[i] = "spawned"
    /\ envTask' = [envTask EXCEPT ![i] = "calling"]
    /\ UNCHANGED <<pc, outcome, stdout, subcommand, namespace, projResp,
                   project_names, envResp, envOut, all_envs, detArgs, detTask,
                   detResp, detOut, results, arg, ret>>

EnvsListed == SumLen(TakeOutputs(envOut))

\* main.rs:58-67 and 84, the call of task i returns and join_all stores its output
EnvReturn(i) ==
    /\ outcome = "running"
    /\ envTask[i] = "calling"
    /\ \E resp \in EnvListResponses(project_names[i].id, MaxEnvTotal - EnvsListed) :
          LET got == get_environments_of_project(project_names[i], resp)
          IN  /\ envResp' = [envResp EXCEPT ![i] = Some(resp)]
              /\ IF got.panic
                 THEN /\ Abort
                      /\ envTask' = [envTask EXCEPT ![i] = "panicked"]
                      /\ UNCHANGED envOut
                 ELSE /\ envTask' = [envTask EXCEPT ![i] = "done"]
                      /\ envOut' = [envOut EXCEPT ![JoinAllSlot(i, envOut)] = Some(got.val)]
                      /\ UNCHANGED <<pc, outcome>>
    /\ UNCHANGED <<stdout, subcommand, namespace, projResp, project_names,
                   all_envs, detArgs, detTask, detResp, detOut, results, arg, ret>>

\* main.rs:84-95, 203 and 143-160: the environment-list stage is joined, one
\* detail task is spawned per (project, environment)
EnvsJoined ==
    /\ pc = "envs" /\ outcome = "running"
    /\ JoinReady(envTask)
    /\ LET joined == TakeOutputs(envOut)
           launch == Flatten(joined)
       IN  /\ all_envs' = joined
           /\ stdout' = Append(stdout,
                 TextLine("Retrieved " \o ToString(SumLen(joined)) \o " environments"))
           /\ detArgs' = launch
           /\ detTask' = Fresh(Len(launch), "spawned")
           /\ detResp' = Fresh(Len(launch), None)
           /\ detOut' = Fresh(Len(launch), None)
    /\ pc' = "details"
    /\ UNCHANGED <<outcome, subcommand, namespace, projResp, project_names,
                   envTask, envResp, envOut, results, arg, ret>>

\* main.rs:103-105, task k issues its environment-detail call
DetCall(k) ==
    /\ outcome = "running"
    /\ detTask[k] = "spawned"
    /\ detTask' = [detTask EXCEPT ![k] = "calling"]
    /\ UNCHANGED <<pc, outcome, stdout, subcommand, namespace, projResp,
                   project_names, envTask, envResp, envOut, all_envs, detArgs,
                   detResp, detOut, results, arg, ret>>

\* main.rs:103-135 and 160, the call of task k returns, the row is built and
\* join_all stores it; a panic drops join_all and what it holds
DetReturn(k) ==
    /\ outcome = "running"
    /\ detTask[k] = "calling"
    /\ \E resp \in DetailResponses(detArgs[k].env) :
          LET got == build_environment_row(detArgs[k].name, detArgs[k].env, resp)
          IN  /\ detResp' = [detResp EXCEPT ![k] = Some(resp)]
              /\ IF got.panic
                 THEN /\ Abort
                      /\ detTask' = [detTask EXCEPT ![k] = "panicked"]
                      /\ detOut' = Fresh(Len(detOut), None)
                 ELSE /\ detTask' = [detTask EXCEPT ![k] = "done"]
                      /\ detOut' = [detOut EXCEPT ![JoinAllSlot(k, detOut)] = Some(got.val)]
                      /\ UNCHANGED <<pc, outcome>>
    /\ UNCHANGED <<stdout, subcommand, namespace, projResp, project_names,
                   envTask, envResp, envOut, all_envs, detArgs, results, arg, ret>>

\* main.rs:160-162, main is awaiting the join_all of the detail stage and
\* every future of it is ready
DetailsJoinReady ==
    /\ pc = "details" /\ outcome = "running"
    /\ JoinReady(detTask)

\* main.rs:160-165 and 204-287: the detail stage is joined, the rows are
\* collected, filtered, grouped and printed
DetailsJoined ==
    /\ DetailsJoinReady
    /\ LET collected == CollectResults(TakeOutputs(detOut))
           progress  == Append(stdout, TextLine("Retrieved environments details"))
       IN  IF collected.ok
           THEN /\ results' = Some(collected.val)
                /\ stdout' = progress \o RenderResults(collected.val)
                /\ outcome' = "ok"
           ELSE /\ stdout' = progress
                /\ outcome' = "err"
                /\ UNCHANGED results
    /\ pc' = "done"
    /\ UNCHANGED <<subcommand, namespace, projResp, project_names, envTask,
                   envResp, envOut, all_envs, detArgs, detTask, detResp, detOut,
                   arg, ret>>

Next ==
    \/ MainNoSubcommand
    \/ MainConnect
    \/ ProjectsReturn
    \/ \E i \in 1..Len(envTask) : EnvCall(i)
    \/ \E i \in 1..Len(envTask) : EnvReturn(i)
    \/ EnvsJoined
    \/ \E k \in 1..Len(detTask) : DetCall(k)
    \/ \E k \in 1..Len(detTask) : DetReturn(k)
    \/ DetailsJoined

Spec == Init /\ [][Next]_vars

\* every platform call returns or fails and the runtime runs every spawned
\* task and polls main again: a step that stays possible is taken
FairSpec == Spec /\ WF_vars(Next)

-----------------------------------------------------------------------------
(* Function specifications: the argument is drawn in the initial state, the *)
(* one action applies the function.                                          *)

FnInit(name, args) ==
    /\ pc = name
    /\ outcome = "running"
    /\ stdout = <<>>
    /\ subcommand = "none"
    /\ namespace = <<>>
    /\ projResp = None
    /\ project_names = <<>>
    /\ envTask = <<>> /\ envResp = <<>> /\ envOut = <<>>
    /\ all_envs = <<>>
    /\ detArgs = <<>> /\ detTask = <<>> /\ detResp = <<>> /\ detOut = <<>>
    /\ results = None
    /\ arg \in args
    /\ ret = None

FnReturn(name, value) ==
    /\ pc = name /\ ret = None
    /\ ret' = Some(value)
    /\ UNCHANGED <<pc, outcome, stdout, subcommand, namespace, projResp,
                   project_names, envTask, envResp, envOut, all_envs, detArgs,
                   detTask, detResp, detOut, results, arg>>

\* rows as the tests of main.rs:294-328 build them, varying the commit
CommitSet == {"", "a1b2c3d", "f00", "asdflkj"}

TestRow(commit) ==
    [project_name |-> "project", environment_name |-> "env",
     deployment_by |-> "deployed by someone", commit_sha |-> commit,
     updated |-> "some time ago"]

InitAllTheSame ==
    FnInit("all_the_same", SeqsUpTo({TestRow(c) : c \in CommitSet}, MaxRows))

CallAllTheSame == FnReturn("all_the_same", all_the_same(arg))

SpecAllTheSame == InitAllTheSame /\ [][CallAllTheSame]_vars

\* namespaces and filters for the project lister
ListerNamespaces ==
    {<<"p", "a", "y">>, <<"P", "a", "y">>, <<"P", "A", "Y">>,
     <<"p", "a", "y", "-", "x">>, <<"p", "a">>, <<"o", "p", "s">>}

ListerFilters == {<<>>, <<"p", "a", "y">>, <<"P", "A", "Y">>}

ListerListings ==
    {[i \in 1..Len(s) |-> [id |-> i, name |-> "api", namespace |-> s[i]]] :
        s \in SeqsUpTo(ListerNamespaces, MaxProjects)}

InitLister ==
    FnInit("get_projects_for_namespace",
           {[resp |-> r, ns |-> f] :
               r \in {Err} \cup {Ok(ps) : ps \in ListerListings}, f \in ListerFilters})

CallLister ==
    FnReturn("get_projects_for_namespace",
             get_projects_for_namespace(arg.resp, arg.ns))

SpecLister == InitLister /\ [][CallLister]_vars

\* rows of two project names, with and without a commit
TableRow(project, commit) ==
    [project_name |-> project, environment_name |-> "staging",
     deployment_by |-> IF commit = "" THEN "" ELSE "7 by bob",
     commit_sha |-> commit,
     updated |-> IF commit = "" THEN "" ELSE "2 hours ago"]

TableRows ==
    {TableRow(p, c) : p \in {"api", "billing-service"}, c \in {"", "a1b2c3d", "f00"}}

\* main.rs:206-209 and 260-265, the groups main builds from its row vector
main_groups(rows) == GroupBy(FilterDeployed(rows))

InitGroups == FnInit("main_groups", SeqsUpTo(TableRows, MaxRows))

CallGroups == FnReturn("main_groups", main_groups(arg))

SpecGroups == InitGroups /\ [][CallGroups]_vars

InitFilter == FnInit("filter", SeqsUpTo(TableRows, MaxRows))

\* main.rs:206-209 applied once, and applied to its own output
CallFilter ==
    FnReturn("filter", [once |-> FilterDeployed(arg),
                        twice |-> FilterDeployed(FilterDeployed(arg))])

SpecFilter == InitFilter /\ [][CallFilter]_vars

-----------------------------------------------------------------------------
(* Properties *)

IsTableLine(l) == l.kind = "header" \/ l.kind = "row"

TableLines(lines) == SelectSeq(lines, IsTableLine)

NothingToShow == TextLine("There is nothing to show")

\* the rows with a commit, in order
WithCommit(rows) == SelectSeq(rows, LAMBDA r : r.commit_sha # "")

\* what a run prints when every call answers, as a function of the answers
\* alone: the projects answer, the environment answers by project in listing
\* order, the detail answers by (project, environment) in listing order
RunStdout(ns, presp, eresps, dresps) ==
    LET projects == get_projects_for_namespace(presp, ns).val
        envs == [i \in 1..Len(projects) |->
                    get_environments_of_project(projects[i], eresps[i]).val]
        launched == Flatten(envs)
        rows == [k \in 1..Len(launched) |->
                    build_environment_row(launched[k].name, launched[k].env,
                                          dresps[k]).val.val]
    IN  <<TextLine("about to start"),
          TextLine("Obtained " \o ToString(Len(projects)) \o " projects"),
          TextLine("Retrieved " \o ToString(Len(launched)) \o " environments"),
          TextLine("Retrieved environments details")>>
        \o RenderResults(rows)

Answers(resps) == [i \in 1..Len(resps) |-> resps[i][1]]

Returned == pc = "all_the_same" /\ ret # None

\* C1: for every non-empty row sequence, all_the_same answers TRUE exactly
\* when the set of the rows' commits has one element, whatever the
\* arrangement of the rows.
C1_ClassifierIsSetCardinality ==
    (Returned /\ arg # <<>>) =>
        (ret[1] <=> Cardinality({arg[i].commit_sha : i \in 1..Len(arg)}) = 1)

\* the arrangement a, b, a is classified as drifted
C1_Witness ==
    /\ Returned /\ Len(arg) = 3
    /\ arg[1].commit_sha = arg[3].commit_sha
    /\ arg[1].commit_sha # arg[2].commit_sha
    /\ ret[1] = FALSE

\* C2: a row with an empty commit is never printed, and the table is the one
\* printed for the row vector without its empty-commit rows.
C2_EmptyCommitRowsIgnored ==
    results # None =>
        /\ \A n \in 1..Len(stdout) : stdout[n].kind = "row" => stdout[n].cells[4] # ""
        /\ TableLines(stdout) = TableLines(RenderResults(WithCommit(results[1])))

\* a project has a row without commit and a printed row
C2_Witness ==
    /\ results # None
    /\ \E i, j \in 1..Len(results[1]) :
          /\ results[1][i].commit_sha = ""
          /\ results[1][j].commit_sha # ""
          /\ results[1][i].project_name = results[1][j].project_name
    /\ \E n \in 1..Len(stdout) : stdout[n].kind = "row" /\ stdout[n].color = "green"

CallIssued(t) == t \in {"calling", "done", "panicked"}

\* C3: no environment-list call is issued before the project list has
\* returned, no detail call is issued before every environment-list call has
\* completed, and no header or row is printed before every detail call has
\* completed.
C3_StagesAreBarriers ==
    /\ (\E i \in 1..Len(envTask) : CallIssued(envTask[i])) => projResp # None
    /\ (\E k \in 1..Len(detTask) : CallIssued(detTask[k])) =>
           \A i \in 1..Len(envTask) : envTask[i] = "done"
    /\ (\E n \in 1..Len(stdout) : IsTableLine(stdout[n])) =>
           /\ \A i \in 1..Len(envTask) : envTask[i] = "done"
           /\ \A k \in 1..Len(detTask) : detTask[k] = "done"

\* behind two completed environment-list tasks, one detail call is in
\* flight and another has returned
C3_Witness ==
    /\ Len(envTask) >= 2
    /\ \E k \in 1..Len(detTask) : detTask[k] = "calling"
    /\ \E k \in 1..Len(detTask) : detTask[k] = "done"

\* C4: whatever the completion order, every result sits in the slot of the
\* task that produced it, the next stage is launched in project order then
\* environment order, and the printed output is a function of the answers.
C4_ResultsInLaunchOrder ==
    /\ \A i \in 1..Len(envOut) :
          (envOut[i] # None /\ outcome # "panic") =>
              /\ envResp[i] # None
              /\ envOut[i][1] =
                    get_environments_of_project(project_names[i], envResp[i][1]).val
    /\ pc \in {"details"} => /\ all_envs = Answers(envOut)
                             /\ detArgs = Flatten(all_envs)
    /\ \A k \in 1..Len(detOut) :
          detOut[k] # None =>
              /\ detResp[k] # None
              /\ detOut[k][1] =
                    build_environment_row(detArgs[k].name, detArgs[k].env,
                                          detResp[k][1]).val
    /\ results # None =>
          /\ results[1] = [k \in 1..Len(detOut) |-> detOut[k][1].val]
          /\ stdout = RunStdout(namespace, projResp[1], Answers(envResp),
                                Answers(detResp))

\* the second detail task has completed before the first, with a different row
C4_Witness ==
    /\ Len(detTask) >= 2
    /\ detTask[1] = "calling" /\ detTask[2] = "done"
    /\ detOut[1] = None /\ detOut[2] # None
    /\ \E i \in 1..Len(envTask) : i >= 2 /\ envOut[i] # None /\ envOut[i][1] # <<>>

DetailFetchFailed == \E k \in 1..Len(detResp) : detResp[k] # None /\ ~detResp[k][1].ok

\* C5: if a detail fetch fails the run aborts with a failure outcome, prints
\* no header, no row and no "nothing to show", and keeps no sibling's result.
C5_DetailFailureAborts ==
    DetailFetchFailed =>
        /\ pc = "done" /\ outcome = "panic"
        /\ results = None
        /\ \A k \in 1..Len(detOut) : detOut[k] = None
        /\ \A n \in 1..Len(stdout) :
              ~IsTableLine(stdout[n]) /\ stdout[n] # NothingToShow

\* a detail fetch failed after a sibling had completed successfully
C5_Witness ==
    /\ DetailFetchFailed
    /\ \E k \in 1..Len(detTask) : detTask[k] = "done" /\ detResp[k][1].ok
    /\ outcome = "panic"

\* C6: if the project-list call fails the run goes on with no project: no
\* environment-list or detail task exists, each join is ready, and the run
\* ends successfully after printing "nothing to show".
C6_ProjectListFailureIsEmpty ==
    projResp = Some(Err) =>
        /\ project_names = <<>>
        /\ envTask = <<>> /\ detTask = <<>>
        /\ outcome \in {"running", "ok"}
        /\ pc = "envs" => ENABLED EnvsJoined
        /\ pc = "details" => ENABLED DetailsJoined
        /\ pc = "done" => /\ outcome = "ok"
                          /\ stdout[Len(stdout)] = NothingToShow
                          /\ \A n \in 1..Len(stdout) : ~IsTableLine(stdout[n])

C6_Witness ==
    projResp = Some(Err) /\ pc = "done" /\ outcome = "ok"
                         /\ stdout[Len(stdout)] = NothingToShow

EmptyIfFailed(resp) == IF resp.ok THEN resp ELSE Ok(<<>>)

\* C7: a failed environment-list call gives its project an empty list, the
\* task completes without an error, and a run that ends prints what it would
\* print had the project had no environment.
C7_EnvListFailureIsEmpty ==
    /\ \A i \in 1..Len(envResp) :
          envResp[i] = Some(Err) => envTask[i] = "done" /\ envOut[i] = Some(<<>>)
    /\ (results # None /\ \E i \in 1..Len(envResp) : envResp[i] = Some(Err)) =>
          /\ outcome = "ok"
          /\ stdout = RunStdout(namespace, projResp[1],
                                [i \in 1..Len(envResp) |-> EmptyIfFailed(envResp[i][1])],
                                Answers(detResp))

\* the listing failed for one project and a row of another one is printed
C7_Witness ==
    /\ pc = "done" /\ outcome = "ok"
    /\ \E i \in 1..Len(envResp) : envResp[i] = Some(Err)
    /\ \E n \in 1..Len(stdout) : stdout[n].kind = "row"

HasDeployment(resp) == resp.ok /\ resp.val.last_deployment # None

\* C8: the updated label is the relative duration when a deployment exists
\* and its timestamp parses, and is empty otherwise, the row being produced
\* in either case: an unparsable timestamp fails neither the row nor the run.
C8_UnparsableTimestampGivesEmptyLabel ==
    \A k \in 1..Len(detResp) :
        (detResp[k] # None /\ detResp[k][1].ok) =>
            LET dep == detResp[k][1].val.last_deployment
                parsed == dep # None /\ dep[1].created_at \in DOMAIN Rfc3339Hour
            IN  /\ detTask[k] = "done"
                /\ outcome # "panic" =>
                      /\ detOut[k] # None
                      /\ detOut[k][1].ok
                      /\ detOut[k][1].val.updated =
                            IF parsed
                            THEN HumanTime(Rfc3339Hour[dep[1].created_at] - UtcNow)
                            ELSE ""

EqualIgnoringCase(a, b) ==
    /\ Len(a) = Len(b)
    /\ \A i \in 1..Len(a) :
          \/ a[i] = b[i]
          \/ \E l \in 1..Len(LowerCase) : {a[i], b[i]} = {LowerCase[l], UpperCase[l]}

ListerReturned == pc = "get_projects_for_namespace" /\ ret # None /\ arg.resp.ok

\* C9: a listed project is retained exactly when the filter is empty or its
\* namespace equals the filter ignoring case, and the retained projects keep
\* the order and the names of the listing.
C9_NamespaceFilter ==
    ListerReturned =>
        LET listed == arg.resp.val
            kept == ret[1].val
        IN  /\ ~ret[1].panic
            /\ \A i \in 1..Len(listed) :
                  (\E j \in 1..Len(kept) : kept[j].id = listed[i].id) <=>
                      (arg.ns = <<>> \/ EqualIgnoringCase(listed[i].namespace, arg.ns))
            /\ \A j \in 1..Len(kept) :
                  /\ kept[j].id \in 1..Len(listed)
                  /\ kept[j].name = listed[kept[j].id].name
            /\ \A j, k \in 1..Len(kept) : j < k => kept[j].id < kept[k].id

\* filter "pay": a project of namespace "Pay" is kept, one of "pay-x" is not
C9_Witness ==
    /\ ListerReturned
    /\ arg.ns = <<"p", "a", "y">>
    /\ \E i \in 1..Len(arg.resp.val) : arg.resp.val[i].namespace = <<"P", "a", "y">>
    /\ \E i \in 1..Len(arg.resp.val) :
          arg.resp.val[i].namespace = <<"p", "a", "y", "-", "x">>
    /\ Len(ret[1].val) = 1

HeaderFloors == <<7, 11, 10, 6, 7>>

LargestOf(S) == CHOOSE m \in S : \A x \in S : m >= x

\* C10: each column width is the larger of the header's length and the
\* longest cell of the column over the retained rows, is at least 7, 11,
\* 10, 6, 7 respectively, and is the same on the header and on every row.
C10_ColumnWidths ==
    results # None =>
        LET kept == WithCommit(results[1])
            cells(r) == <<r.project_name, r.environment_name, r.deployment_by,
                          r.commit_sha, r.updated>>
            header == HeaderLine(<<>>).cells
            expected == [c \in 1..5 |->
                LargestOf({Len(header[c])}
                          \cup {Len(cells(kept[i])[c]) : i \in 1..Len(kept)})]
        IN  \A n \in 1..Len(stdout) :
                IsTableLine(stdout[n]) =>
                    /\ stdout[n].widths = expected
                    /\ \A c \in 1..5 : stdout[n].widths[c] >= HeaderFloors[c]

\* a table with a column at its floor and a column wider than its header
C10_Witness ==
    /\ results # None
    /\ \E n \in 1..Len(stdout) :
          /\ stdout[n].kind = "row"
          /\ stdout[n].widths[1] = 7
          /\ stdout[n].widths[2] > 11
          /\ stdout[n].widths[4] > 6

CountOf(lines, l) == Cardinality({n \in 1..Len(lines) : lines[n] = l})

\* C11: if no row remains after the empty-commit filter, the run prints the
\* "nothing to show" message exactly once, as its last line, prints no header
\* and no row, and ends with success.
C11_EmptyResultState ==
    (results # None /\ WithCommit(results[1]) = <<>>) =>
        /\ pc = "done" /\ outcome = "ok"
        /\ CountOf(stdout, NothingToShow) = 1
        /\ stdout[Len(stdout)] = NothingToShow
        /\ \A n \in 1..Len(stdout) : ~IsTableLine(stdout[n])

\* every environment is undeployed or has no commit, and there is one
C11_Witness ==
    /\ results # None /\ Len(results[1]) >= 1
    /\ WithCommit(results[1]) = <<>>
    /\ outcome = "ok" /\ stdout[Len(stdout)] = NothingToShow

\* C12: all_the_same of a one-row sequence is TRUE whatever the row's commit.
C12_SingleRowIsConsistent ==
    (Returned /\ Len(arg) = 1) => ret[1] = TRUE

\* a single row with an empty commit is classified consistent
C12_Witness ==
    Returned /\ Len(arg) = 1 /\ arg[1].commit_sha = "" /\ ret[1] = TRUE

GroupsReturned == pc = "main_groups" /\ ret # None

\* C13: the groups are the maximal runs of consecutive rows of equal project
\* name of the filtered sequence: none is empty, a group has one project
\* name, adjacent groups have different names, and the groups concatenated
\* in order are the filtered sequence.
C13_GroupsAreMaximalRuns ==
    GroupsReturned =>
        LET groups == ret[1]
        IN  /\ \A g \in 1..Len(groups) :
                  /\ groups[g] # <<>>
                  /\ \A i \in 1..Len(groups[g]) :
                        groups[g][i].project_name = groups[g][1].project_name
            /\ \A g \in 1..(Len(groups) - 1) :
                  groups[g][1].project_name # groups[g + 1][1].project_name
            /\ Flatten(groups) = WithCommit(arg)

\* a project name recurs after another one: three groups
C13_Witness ==
    /\ GroupsReturned /\ Len(ret[1]) = 3
    /\ ret[1][1][1].project_name = ret[1][3][1].project_name
    /\ \E i \in 1..Len(arg) : arg[i].commit_sha = ""

FilterReturned == pc = "filter" /\ ret # None

\* C17: filtering the output of the empty-commit filter again changes
\* nothing: same rows, same order.
C17_FilterIsIdempotent ==
    FilterReturned => ret[1].twice = ret[1].once

\* the filter removed two rows and kept one
C17_Witness ==
    /\ FilterReturned
    /\ Len(arg) = 3 /\ Len(ret[1].once) = 1
    /\ ret[1].twice = ret[1].once

RowCells(r) ==
    <<r.project_name, r.environment_name, r.deployment_by, r.commit_sha, r.updated>>

\* the rows of the maximal run of equal project names around position n
RunAround(rows, n) ==
    {m \in 1..Len(rows) :
        \A j \in 1..Len(rows) :
            ((m <= j /\ j <= n) \/ (n <= j /\ j <= m)) =>
                rows[j].project_name = rows[n].project_name}

ColorOf(commits) == IF Cardinality(commits) = 1 THEN "green" ELSE "red"

\* C14: a run that renders a table prints one header, then each retained
\* row once in the order of the filtered sequence, and nothing after; a row
\* is green exactly when the rows of its group have one commit, red
\* otherwise, so the rows of a group have one colour.
C14_TableLayout ==
    (results # None /\ WithCommit(results[1]) # <<>>) =>
        LET kept  == WithCommit(results[1])
            table == TableLines(stdout)
        IN  /\ Len(table) = Len(kept) + 1
            /\ table = SubSeq(stdout, Len(stdout) - Len(kept), Len(stdout))
            /\ table[1].kind = "header"
            /\ \A n \in 1..Len(kept) :
                  /\ table[n + 1].kind = "row"
                  /\ table[n + 1].cells = RowCells(kept[n])
                  /\ table[n + 1].color =
                        ColorOf({kept[m].commit_sha : m \in RunAround(kept, n)})

\* two rows of one project with different commits are printed red
C14_Witness ==
    /\ results # None
    /\ Len(TableLines(stdout)) = 3
    /\ TableLines(stdout)[2].color = "red" /\ TableLines(stdout)[3].color = "red"
    /\ TableLines(stdout)[2].cells[1] = TableLines(stdout)[3].cells[1]

Finished(t) == t \in {"done", "panicked"}

\* C15: one environment-list task, hence call, per listed project that the
\* filter retains and none for the others; once that stage is joined, one
\* detail task per (project, environment) listed; a task has its answer
\* exactly when it is finished, so no call is issued again after an answer.
C15_OneCallPerTask ==
    /\ (projResp # None /\ outcome # "panic") =>
          LET listed == IF projResp[1].ok THEN projResp[1].val ELSE <<>>
          IN  /\ Len(envTask) = Len(project_names)
              /\ \A p \in 1..Len(listed) :
                    Cardinality({i \in 1..Len(envTask) :
                                    project_names[i].id = listed[p].id})
                    = IF namespace = <<>>
                         \/ EqualIgnoringCase(listed[p].namespace, namespace)
                      THEN 1 ELSE 0
    /\ (pc \in {"details", "done"} /\ projResp # None) =>
          /\ Len(detTask) = Len(detArgs)
          /\ Len(detArgs) =
                SumLen([i \in 1..Len(envResp) |->
                           IF envResp[i][1].ok THEN envResp[i][1].val ELSE <<>>])
          /\ \A i \in 1..Len(envResp) :
                envResp[i][1].ok =>
                    \A j \in 1..Len(envResp[i][1].val) :
                        Cardinality({k \in 1..Len(detArgs) :
                                        /\ detArgs[k].id = project_names[i].id
                                        /\ detArgs[k].env = envResp[i][1].val[j]}) = 1
    /\ \A i \in 1..Len(envTask) : envResp[i] # None <=> Finished(envTask[i])
    /\ \A k \in 1..Len(detTask) : detResp[k] # None <=> Finished(detTask[k])

\* one listed project is filtered out, another is retained and its detail
\* call has returned
C15_Witness ==
    /\ projResp # None /\ projResp[1].ok
    /\ Len(projResp[1].val) = 2 /\ Len(envTask) = 1
    /\ \E k \in 1..Len(detTask) : detTask[k] = "done"

\* C16: all_the_same of a sequence of zero rows is TRUE.
C16_EmptyGroupIsConsistent ==
    (Returned /\ arg = <<>>) => ret[1] = TRUE

\* the positions of the rows that have a commit, in order
KeptIdx(rows) ==
    SelectSeq([k \in 1..Len(rows) |-> k], LAMBDA k : rows[k].commit_sha # "")

\* C18: the colour of a printed row depends on the rows of its own project
\* (by project id) only: green exactly when they have one commit.
C18_GroupsAreByProject ==
    results # None =>
        LET rows  == results[1]
            idx   == KeptIdx(rows)
            table == TableLines(stdout)
        IN  \A n \in 1..Len(idx) :
                table[n + 1].color =
                    ColorOf({rows[idx[m]].commit_sha :
                                m \in {m \in 1..Len(idx) :
                                          detArgs[idx[m]].id = detArgs[idx[n]].id}})

\* C20: a row built for an environment without deployment has an empty
\* deployment label, commit and updated label; every printed row comes from
\* an environment with a deployment and shows "<iid> by <username>".
C20_PrintedRowsHaveDeployment ==
    /\ \A k \in 1..Len(detOut) :
          (detOut[k] # None /\ detResp[k][1].val.last_deployment = None) =>
              /\ detOut[k][1].val.deployment_by = ""
              /\ detOut[k][1].val.commit_sha = ""
              /\ detOut[k][1].val.updated = ""
    /\ results # None =>
          LET idx   == KeptIdx(results[1])
              table == TableLines(stdout)
          IN  /\ Len(table) = IF idx = <<>> THEN 0 ELSE Len(idx) + 1
              /\ \A n \in 1..Len(idx) :
                    LET dep == detResp[idx[n]][1].val.last_deployment
                    IN  /\ dep # None
                        /\ table[n + 1].cells[3] # ""
                        /\ table[n + 1].cells[3] =
                              ToString(dep[1].iid) \o " by " \o dep[1].username

\* an undeployed environment next to a printed one
C20_Witness ==
    /\ results # None
    /\ \E k \in 1..Len(detResp) : detResp[k][1].val.last_deployment = None
    /\ \E n \in 1..Len(stdout) : stdout[n].kind = "row"

TableRendered ==
    /\ outcome = "ok"
    /\ results # None /\ WithCommit(results[1]) # <<>>
    /\ TableLines(stdout) # <<>>
    /\ CountOf(stdout, NothingToShow) = 0

NothingShown ==
    /\ outcome = "ok"
    /\ results # None /\ WithCommit(results[1]) = <<>>
    /\ TableLines(stdout) = <<>>
    /\ CountOf(stdout, NothingToShow) = 1

Aborted ==
    /\ outcome \in {"err", "panic"}
    /\ TableLines(stdout) = <<>>
    /\ CountOf(stdout, NothingToShow) = 0

AllDetailsParsable ==
    \A k \in 1..Len(detResp) :
        /\ detResp[k] # None
        /\ detResp[k][1].ok
        /\ LET dep == detResp[k][1].val.last_deployment
           IN  dep = None \/ dep[1].created_at \in DOMAIN Rfc3339Hour

GetTerminal ==
    (pc = "done" /\ subcommand = "get") =>
        /\ Cardinality({t \in {"table", "nothing", "aborted"} :
                           \/ t = "table" /\ TableRendered
                           \/ t = "nothing" /\ NothingShown
                           \/ t = "aborted" /\ Aborted}) = 1
        /\ DetailFetchFailed => outcome # "ok"
        /\ (projResp # None /\ AllDetailsParsable) => outcome = "ok"

PcRank ==
    CASE pc = "start" -> 0 [] pc = "projects" -> 1 [] pc = "envs" -> 2
      [] pc = "details" -> 3 [] OTHER -> 4

TaskRank(t) == IF t = "spawned" THEN 0 ELSE IF t = "calling" THEN 1 ELSE 2

RECURSIVE SumRank(_)
SumRank(tasks) ==
    IF tasks = <<>> THEN 0 ELSE TaskRank(Head(tasks)) + SumRank(Tail(tasks))

\* how far the run has come: the position of main and of every task
Progress == PcRank + SumRank(envTask) + SumRank(detTask)

\* a run that has not ended can take a step: main's own, or a task's
CanStep ==
    /\ pc = "start" => ENABLED (MainConnect \/ MainNoSubcommand)
    /\ pc = "projects" => ENABLED ProjectsReturn
    /\ pc = "envs" =>
          IF JoinReady(envTask) THEN ENABLED EnvsJoined
          ELSE \E i \in 1..Len(envTask) :
                  \/ envTask[i] = "spawned" /\ ENABLED EnvCall(i)
                  \/ envTask[i] = "calling" /\ ENABLED EnvReturn(i)
    /\ pc = "details" =>
          IF JoinReady(detTask) THEN DetailsJoinReady
          ELSE \E k \in 1..Len(detTask) :
                  \/ detTask[k] = "spawned" /\ ENABLED DetCall(k)
                  \/ detTask[k] = "calling" /\ ENABLED DetReturn(k)
    /\ pc \in {"start", "projects", "envs", "details", "done"}

\* C19: a run that has not ended can always take a step, every step brings
\* it further and no step leaves the end, so with every call answering and
\* every step that stays possible being taken the run ends; a run of `get`
\* ends in exactly one of: table rendered with success, "nothing to show"
\* with success, aborted with failure; never with success after a failed
\* detail fetch, never with failure when the pipeline was entered and every
\* detail fetch succeeded with parsable data.
C19_Terminates ==
    /\ []CanStep
    /\ [][Progress' > Progress /\ Progress' <= 4 + 2 * (MaxProjects + MaxEnvTotal)]_vars
    /\ []GetTerminal

\* a run that ended with a rendered table
C19_Witness == pc = "done" /\ TableRendered

====
